---- MODULE Spec2Model ----
(***************************************************************************)
(* Model of github.com/ardnew/roster: the scan entry point Take            *)
(* (roster.go), the concurrent traversal Walk (walk/walk.go) and the       *)
(* roster index Roster (file/file.go) with deletion tracking.              *)
(*                                                                         *)
(* One directory is scanned MaxScans times in a row by one call of Take    *)
(* (Take(take, filename, update, dir, dir)).  The directory tree is static *)
(* during the call, apart from the roster file that Take itself writes.    *)
(***************************************************************************)
EXTENDS Integers, Sequences, FiniteSets, TLC

\* ------------------------------------------------------------------ bounds
\* runtime.NumCPU() of the host
NumCPU == 2
\* number of roots handed to Take (the same directory each time)
MaxScans == 2

\* --------------------------------------------------------- program constants
RuntimeThreadsNoLimit == 0
StatusNoFsize == -1
StatusNoPerms == "(none)"
StatusNoMtime == "(none)"
StatusNoCheck == ""

\* ------------------------------------------------------------- the file tree
\* Relative paths below the scanned directory, in the lexical order in which
\* filepath.Walk visits them.
RosterName == ".roster.yml"
Entries == <<".git/x", RosterName, "a.txt", "b.txt", "c.txt">>
Paths == {Entries[i] : i \in 1..Len(Entries)}
Rank(p) == CHOOSE i \in 1..Len(Entries) : Entries[i] = p

\* What the tree holds at a path:
\*   "none"   nothing
\*   "file"   a regular file whose content can be read
\*   "locked" a regular file whose content cannot be opened (os.Open fails)
\*   "dir"    a directory
\*   "err"    an entry for which filepath.Walk reports an error
Kinds == {"none", "file", "locked", "dir", "err"}

\* os.FileInfo and content of the regular files of the tree
FileSize(p) == 1
FileMode(p) == "-rw-r--r--"
FileTime(p) == "t1"
FileSum(p) == "h1"

NoStatus ==
  [Fsize |-> StatusNoFsize, Perms |-> StatusNoPerms,
   Mtime |-> StatusNoMtime, Check |-> StatusNoCheck]

AllVerify == [Fsize |-> TRUE, Perms |-> TRUE, Mtime |-> TRUE, Check |-> TRUE]

\* mutant of Equals: the Verify settings are not consulted
EqualsEveryField(s, t, ver) == s = t

\* Status.Equals: equality per Verify settings
Equals(s, t, ver) ==
  /\ (~ver.Fsize \/ s.Fsize = t.Fsize)
  /\ (~ver.Perms \/ s.Perms = t.Perms)
  /\ (~ver.Mtime \/ s.Mtime = t.Mtime)
  /\ (~ver.Check \/ s.Check = t.Check)

\* mutant of Valid: the negation is lost
ValidInverted(s) == s = NoStatus

\* Status.Valid: not the NoStatus struct, using all attributes
Valid(s) == ~Equals(s, NoStatus, AllVerify)

\* Checksum: <<sum, err>>
Checksum(kind, p) ==
  IF kind = "file" THEN <<FileSum(p), "nil">> ELSE <<"", "open">>

\* MakeStatus: <<stat, err>>; always analyses every attribute
MakeStatus(kind, p) ==
  LET c == Checksum(kind, p)
  IN  IF c[2] # "nil"
        THEN <<NoStatus, c[2]>>
        ELSE <<[Fsize |-> FileSize(p), Perms |-> FileMode(p),
                Mtime |-> FileTime(p), Check |-> c[1]], "nil">>

\* ----------------------------------------------------------- ignore patterns
IgnoreDefault == <<"\\.git", "\\.svn">>

\* mutant of Compiles: every pattern is accepted
CompilesAny(ign) == TRUE

\* regexp.Compile on one pattern: does it compile?
Compiles(ign) == ign # "("

\* Ignore.Compile: <<ire, err>>
Compile(ignores) ==
  IF \E i \in 1..Len(ignores) : ~Compiles(ignores[i])
    THEN <<(<<>>), "regexp">>
    ELSE <<ignores, "nil">>

\* Regexp.MatchString on the paths of the tree (unanchored match)
MatchString(re, p) ==
  re = "\\.git" /\ p = ".git/x"

\* mutant of Ignored: only the last pattern of the list is tried
IgnoredLastOnly(ire, p) == Len(ire) > 0 /\ MatchString(ire[Len(ire)], p)

\* the loop over Cfg.ire in Keep and Parse: some pattern matches the path
Ignored(ire, p) == \E i \in 1..Len(ire) : MatchString(ire[i], p)


\* -------------------------------------------------------------------- state
VARIABLES
  disk,        \* the tree: path -> kind (static during Take)
  rosterFile,  \* the persisted roster document: <<>> or <<[Cfg, Mem]>>
  update,      \* Take's update flag
  tpc,         \* Take: "parse", "walk", "report", "write", "done"
  scan,        \* Take: number of the root being scanned
  ret,         \* Take: returned error ("nil" when none)
  out,         \* Take: handler calls so far, <<handler, path>>
  cfg,         \* Roster.Cfg: [Thr, Ver, Ign, ire]
  Mem,         \* Roster.Mem: path -> Status
  abs,         \* Roster.abs: keys of the Absent map
  memlk,       \* Roster.memlk: the mutex is locked
  abslk,       \* Roster.abslk: the mutex is locked
  wpc,         \* Walk (main goroutine): position in the function body
  pos,         \* filepath.Walk: index in Entries of the next entry
  walkErr,     \* value returned by filepath.Walk (Walk discards it)
  work,        \* sync.WaitGroup work: counter
  qclosed,     \* queue has been closed
  wk,          \* worker goroutines: [pc, path, new, mod, stat]
  fpc,         \* funnel goroutines: funnel -> "recv" | "append" | "done"
  fval,        \* funnel goroutines: funnel -> the string s just received
  fclosed,     \* funnelNew and funnelMod have been closed
  new, mod, del,  \* the slices Walk returns
  Mem0,        \* history: Roster.Mem when Walk was entered
  cls,         \* history: path -> classification by its worker
  disp,        \* history: path -> number of times sent on queue
  failed,      \* history: paths whose processing failed, in any scan
  emitted      \* history: funnel -> the paths the workers sent on it

vars ==
  <<disk, rosterFile, update, tpc, scan, ret, out, cfg, Mem, abs, memlk,
    abslk, wpc, pos, walkErr, work, qclosed, wk, fpc, fval, fclosed, new,
    mod, del, Mem0, cls, disp, failed, emitted>>

takeVars == <<update, tpc, scan, ret, out>>
rosVars == <<cfg, Mem, abs>>
lockVars == <<memlk, abslk>>
walkVars ==
  <<wpc, pos, walkErr, work, qclosed, wk, fpc, fval, fclosed, new, mod, del>>
histVars == <<Mem0, cls, disp, failed, emitted>>

Max(a, b) == IF a > b THEN a ELSE b
\* config.runtime.threads of a persisted roster file: no worker at all, as many
\* as the host has CPUs, a single one
ThreadSettings == {-1, RuntimeThreadsNoLimit, 1}
Workers == 1..Max(NumCPU, 1)
Funnels == {"new", "mod"}

EmptyMem == [p \in {} |-> NoStatus]

\* mutant of Put: the assignment to the map is lost
PutNothing(m, p, s) == m

Put(m, p, s) == [q \in DOMAIN m \cup {p} |-> IF q = p THEN s ELSE m[q]]
Remove(m, p) == [q \in DOMAIN m \ {p} |-> m[q]]

IdleWorker(pc) ==
  [pc |-> pc, path |-> "", new |-> FALSE, mod |-> FALSE, stat |-> NoStatus]

\* The worker goroutines run the same code and have no identity: their
\* records are kept in one order, the workers holding a candidate first (in
\* the order in which they received it), then those waiting on the queue,
\* then those that have returned, then those never started.
IsWaiting(r) == r.pc = "recv"
IsReturned(r) == r.pc = "exit"
IsOff(r) == r.pc = "off"
IsHolding(r) == r.pc \notin {"recv", "exit", "off"}
Settle(f) ==
  LET s == [i \in 1..Cardinality(DOMAIN f) |-> f[i]]
      t == SelectSeq(s, IsHolding) \o SelectSeq(s, IsWaiting)
             \o SelectSeq(s, IsReturned) \o SelectSeq(s, IsOff)
  IN  [w \in DOMAIN f |-> t[w]]

NoCls == [p \in Paths |-> "none"]
NoDisp == [p \in Paths |-> 0]
NoVal == [f \in Funnels |-> ""]
NoneEmitted == [f \in Funnels |-> <<>>]

\* ------------------------------------------------------------ file.New/Parse
\* New: the default roster; IgnoreDefault only when no roster file exists
New(fileExists) ==
  [Thr |-> RuntimeThreadsNoLimit,
   Ver |-> [Fsize |-> TRUE, Perms |-> FALSE, Mtime |-> FALSE, Check |-> TRUE],
   Ign |-> IF fileExists THEN <<>> ELSE IgnoreDefault,
   ire |-> IF fileExists THEN <<>> ELSE Compile(IgnoreDefault)[1]]

\* mutants of ParseAbs: the absentee list is not initialised; the ignore
\* patterns are not consulted
ParseAbsNone(mem, ire) == {}
ParseAbsAll(mem, ire) == DOMAIN mem

\* Parse, "initialize absentee list": members matching no ignore pattern
ParseAbs(mem, ire) == {m \in DOMAIN mem : ~Ignored(ire, m)}

\* Take: ros, err := file.Parse(path); an error ends Take
Parse ==
  /\ tpc = "parse"
  /\ IF rosterFile = <<>>
       THEN /\ cfg' = New(FALSE)
            /\ Mem' = EmptyMem
            /\ abs' = {}
            /\ tpc' = "walk"
            /\ ret' = ret
       ELSE LET doc == rosterFile[1]
                c == Compile(doc.Cfg.Ign)
            IN  IF c[2] # "nil"
                  THEN /\ tpc' = "done"
                       /\ ret' = "file.Parse()"
                       /\ UNCHANGED rosVars
                  ELSE /\ cfg' = [Thr |-> doc.Cfg.Thr, Ver |-> doc.Cfg.Ver,
                                  Ign |-> doc.Cfg.Ign, ire |-> c[1]]
                       /\ Mem' = doc.Mem
                       /\ abs' = ParseAbs(doc.Mem, c[1])
                       /\ tpc' = "walk"
                       /\ ret' = ret
  /\ wpc' = "start"
  /\ UNCHANGED <<lockVars, disk, rosterFile, update, scan, out, pos, walkErr,
                 work, qclosed, wk, fpc, fval, fclosed, new, mod, del,
                 histVars>>

\* ---------------------------------------------------------- Roster methods
\* filepath.Base on the paths of the tree
Base(p) == IF p = ".git/x" THEN "x" ELSE p

\* Roster.Status: <<stat, ok>> (under memlk)
Status(mem, p) ==
  IF p \in DOMAIN mem THEN <<mem[p], TRUE>> ELSE <<NoStatus, FALSE>>

\* mutant of Keep: the test of the mode bits is inverted
KeepInverted(ire, p, kind) ==
  IF kind \in {"file", "locked"} THEN FALSE
  ELSE IF Base(p) = Base(RosterName) THEN FALSE
  ELSE ~Ignored(ire, p)

\* mutant of Keep: the roster file is a candidate like any other file
KeepAnyName(ire, p, kind) ==
  IF kind \notin {"file", "locked"} THEN FALSE
  ELSE ~Ignored(ire, p)

\* Roster.Keep: no directory or other non-regular entry, not the roster file,
\* no path matching an ignore pattern
Keep(ire, p, kind) ==
  IF kind \notin {"file", "locked"} THEN FALSE
  ELSE IF Base(p) = Base(RosterName) THEN FALSE
  ELSE ~Ignored(ire, p)

\* mutant of Changed: the validity of the prior entry is not consulted
ChangedAnyEntry(mem, ver, kind, p) ==
  LET prev == Status(mem, p)
      ms == MakeStatus(kind, p)
  IN  IF prev[2]
        THEN [new |-> FALSE, changed |-> ~Equals(prev[1], ms[1], ver),
              stat |-> ms[1], err |-> ms[2]]
        ELSE [new |-> TRUE, changed |-> FALSE, stat |-> ms[1], err |-> ms[2]]

\* Roster.Changed: [new, changed, stat, err]
Changed(mem, ver, kind, p) ==
  LET prev == Status(mem, p)
      ms == MakeStatus(kind, p)
  IN  IF prev[2] /\ Valid(prev[1])
        THEN [new |-> FALSE, changed |-> ~Equals(prev[1], ms[1], ver),
              stat |-> ms[1], err |-> ms[2]]
        ELSE [new |-> TRUE, changed |-> FALSE, stat |-> ms[1], err |-> ms[2]]

\* Roster.Absentees: the keys of abs, in the order the map iteration yields
Orderings(S) ==
  {s \in [1..Cardinality(S) -> S] :
     \A i, j \in 1..Cardinality(S) : i # j => s[i] # s[j]}

\* mutant of ExpelEach: the members are left in the index
ExpelNone(mem, paths) == mem

\* Roster.Expel for each path of a slice, in turn
RECURSIVE ExpelEach(_, _)
ExpelEach(mem, paths) ==
  IF paths = <<>> THEN mem
  ELSE ExpelEach(Remove(mem, Head(paths)), Tail(paths))

\* ------------------------------------------------------ walk.Walk, main part
KindOf(p) ==
  IF p = RosterName
    THEN (IF rosterFile = <<>> THEN "none" ELSE "file")
    ELSE disk[p]

\* the next entry filepath.Walk finds in the tree, from position i on
RECURSIVE NextPos(_)
NextPos(i) ==
  IF i > Len(Entries) THEN i
  ELSE IF KindOf(Entries[i]) # "none" THEN i
  ELSE NextPos(i + 1)

\* mutant of Threads: the configured number is not consulted
ThreadsAll(thr) == NumCPU

\* threads := roster.Cfg.Rt.Thr; 0 means runtime.NumCPU()
Threads(thr) == IF thr = RuntimeThreadsNoLimit THEN NumCPU ELSE thr

\* Walk up to filepath.Walk: slices, funnels, worker goroutines
WalkStart ==
  /\ tpc = "walk"
  /\ wpc = "start"
  /\ new' = <<>>
  /\ mod' = <<>>
  /\ del' = <<>>
  /\ fpc' = [f \in Funnels |-> "recv"]
  /\ fval' = NoVal
  /\ fclosed' = FALSE
  /\ work' = 0
  /\ qclosed' = FALSE
  /\ wk' = [w \in Workers |->
              IF w <= Threads(cfg.Thr) THEN IdleWorker("recv")
                                       ELSE IdleWorker("off")]
  /\ pos' = 1
  /\ walkErr' = "nil"
  /\ wpc' = "walk"
  /\ Mem0' = Mem
  /\ cls' = NoCls
  /\ disp' = NoDisp
  /\ emitted' = NoneEmitted
  /\ UNCHANGED <<lockVars, disk, rosterFile, takeVars, rosVars, failed>>

\* filepath.Walk: the callback on the next entry, or the end of the tree
WalkFn ==
  /\ tpc = "walk"
  /\ wpc = "walk"
  /\ LET i == NextPos(pos)
     IN  IF i > Len(Entries)
           THEN /\ wpc' = "close"
                /\ UNCHANGED <<pos, walkErr, work>>
           ELSE IF KindOf(Entries[i]) = "err"
             THEN /\ walkErr' = "lstat"
                  /\ wpc' = "close"
                  /\ UNCHANGED <<pos, work>>
           ELSE IF Keep(cfg.ire, Entries[i], KindOf(Entries[i]))
             THEN /\ work' = work + 1
                  /\ pos' = i
                  /\ wpc' = "send"
                  /\ UNCHANGED walkErr
             ELSE /\ pos' = i + 1
                  /\ UNCHANGED <<wpc, walkErr, work>>
  /\ UNCHANGED <<lockVars, disk, rosterFile, takeVars, rosVars, qclosed, wk,
                 fpc, fval, fclosed, new, mod, del, histVars>>

\* queue <- Info{relPath, info}: received by a worker waiting on the queue.
\* The waiting workers run the same code and hold no state of their own, so
\* the lowest-numbered one stands for whichever the scheduler picks.
Send(w) ==
  /\ tpc = "walk"
  /\ wpc = "send"
  /\ wk[w].pc = "recv"
  /\ \A v \in Workers : v < w => wk[v].pc # "recv"
  /\ wk' = [wk EXCEPT ![w].pc = "changed", ![w].path = Entries[pos]]
  /\ disp' = [disp EXCEPT ![Entries[pos]] = @ + 1]
  /\ pos' = pos + 1
  /\ wpc' = "walk"
  /\ UNCHANGED <<lockVars, disk, rosterFile, takeVars, rosVars, walkErr, work,
                 qclosed, fpc, fval, fclosed, new, mod, del, Mem0, cls, failed,
                 emitted>>

\* close(queue)
CloseQueue ==
  /\ tpc = "walk"
  /\ wpc = "close"
  /\ qclosed' = TRUE
  /\ wpc' = "wait"
  /\ UNCHANGED <<lockVars, disk, rosterFile, takeVars, rosVars, pos, walkErr,
                 work, wk, fpc, fval, fclosed, new, mod, del, histVars>>

\* mutants of WorkWaitReady: Walk does not wait for the workers; Walk does
\* not wait for the last candidate
WorkWaitSkipped == TRUE
WorkWaitAllButOne == work <= 1

\* work.Wait() returns when the counter is zero
WorkWaitReady == work = 0

WorkWait ==
  /\ tpc = "walk"
  /\ wpc = "wait"
  /\ WorkWaitReady
  /\ wpc' = "closeFunnels"
  /\ UNCHANGED <<lockVars, disk, rosterFile, takeVars, rosVars, pos, walkErr,
                 work, qclosed, wk, fpc, fval, fclosed, new, mod, del,
                 histVars>>

\* close(funnelNew); close(funnelMod)
CloseFunnels ==
  /\ tpc = "walk"
  /\ wpc = "closeFunnels"
  /\ fclosed' = TRUE
  /\ wpc' = "join"
  /\ UNCHANGED <<lockVars, disk, rosterFile, takeVars, rosVars, pos, walkErr,
                 work, qclosed, wk, fpc, fval, new, mod, del, histVars>>

\* funnel: *ret = append(*ret, s), and back to the range over the channel
FunnelAppend(f) ==
  /\ fpc[f] = "append"
  /\ new' = IF f = "new" THEN Append(new, fval[f]) ELSE new
  /\ mod' = IF f = "mod" THEN Append(mod, fval[f]) ELSE mod
  /\ fpc' = [fpc EXCEPT ![f] = "recv"]
  /\ fval' = [fval EXCEPT ![f] = ""]
  /\ UNCHANGED <<lockVars, disk, rosterFile, takeVars, rosVars, wpc, pos,
                 walkErr, work, qclosed, wk, fclosed, del, histVars>>

\* funnel: the range over a closed, drained channel ends; grp.Done()
FunnelExit(f) ==
  /\ tpc = "walk"
  /\ fpc[f] = "recv"
  /\ fclosed
  /\ fpc' = [fpc EXCEPT ![f] = "done"]
  /\ UNCHANGED <<lockVars, disk, rosterFile, takeVars, rosVars, wpc, pos,
                 walkErr, work, qclosed, wk, fval, fclosed, new, mod, del,
                 histVars>>

\* mutant of FunnelsDone: Walk does not wait for the funnels
FunnelsDoneSkipped == TRUE

\* waitNew.Wait() and waitMod.Wait() return when both funnels are done
FunnelsDone == \A f \in Funnels : fpc[f] = "done"

\* waitNew.Wait(); waitMod.Wait()
WaitFunnels ==
  /\ tpc = "walk"
  /\ wpc = "join"
  /\ FunnelsDone
  /\ wpc' = "absentees"
  /\ UNCHANGED <<lockVars, disk, rosterFile, takeVars, rosVars, pos, walkErr,
                 work, qclosed, wk, fpc, fval, fclosed, new, mod, del,
                 histVars>>

\* del = roster.Absentees()
Absentees ==
  /\ tpc = "walk"
  /\ wpc = "absentees"
  /\ \E s \in Orderings(abs) : del' = s
  /\ wpc' = "expel"
  /\ UNCHANGED <<lockVars, disk, rosterFile, takeVars, rosVars, pos, walkErr,
                 work, qclosed, wk, fpc, fval, fclosed, new, mod, histVars>>

\* mutant of CanLock: Lock returns at once, whoever holds the mutex
CanLockAlways(lk) == TRUE

\* sync.Mutex.Lock returns when the mutex is unlocked
CanLock(lk) == ~lk

\* for _, s := range del { roster.Expel(s) }; return new, mod, del.  Each
\* Expel locks memlk, deletes and unlocks.
ExpelAll ==
  /\ tpc = "walk"
  /\ wpc = "expel"
  /\ CanLock(memlk)
  /\ Mem' = ExpelEach(Mem, del)
  /\ wpc' = "ret"
  /\ UNCHANGED <<lockVars, disk, rosterFile, takeVars, cfg, abs, pos, walkErr,
                 work, qclosed, wk, fpc, fval, fclosed, new, mod, del,
                 histVars>>

\* -------------------------------------------------- walk.Walk, the workers
\* mutant of WorkerChanged: on an error the goroutine returns, without w.Done()
WorkerChangedReturns(w) ==
  /\ tpc = "walk"
  /\ wk[w].pc = "changed"
  /\ LET p == wk[w].path
         c == Changed(Mem, cfg.Ver, KindOf(p), p)
     IN  IF c.err # "nil"
           THEN /\ wk' = [wk EXCEPT ![w].pc = "exit"]
                /\ cls' = [cls EXCEPT ![p] = "error"]
                /\ failed' = failed \cup {p}
           ELSE /\ wk' = [wk EXCEPT ![w].pc = "update", ![w].new = c.new,
                                    ![w].mod = c.changed, ![w].stat = c.stat]
                /\ UNCHANGED <<cls, failed, emitted>>
  /\ UNCHANGED <<lockVars, disk, rosterFile, takeVars, rosVars, wpc, pos,
                 walkErr, work, qclosed, fpc, fval, fclosed, new, mod, del,
                 Mem0, disp, emitted>>

\* r.Changed(d, in.path, in.info); an error is printed, the item is done
WorkerChanged(w) ==
  /\ tpc = "walk"
  /\ wk[w].pc = "changed"
  /\ LET p == wk[w].path
         c == Changed(Mem, cfg.Ver, KindOf(p), p)
     IN  IF c.err # "nil"
           THEN /\ wk' = [wk EXCEPT ![w].pc = "done"]
                /\ cls' = [cls EXCEPT ![p] = "error"]
                /\ failed' = failed \cup {p}
           ELSE /\ wk' = [wk EXCEPT ![w].pc = "update", ![w].new = c.new,
                                    ![w].mod = c.changed, ![w].stat = c.stat]
                /\ UNCHANGED <<cls, failed, emitted>>
  /\ UNCHANGED <<lockVars, disk, rosterFile, takeVars, rosVars, wpc, pos,
                 walkErr, work, qclosed, fpc, fval, fclosed, new, mod, del,
                 Mem0, disp, emitted>>

\* r.Update, first part: the validity check and ros.Mem[filePath] = stat
\* (under memlk); an invalid status is an error, the item is done
WorkerUpdateMem(w) ==
  /\ tpc = "walk"
  /\ wk[w].pc = "update"
  /\ IF ~Valid(wk[w].stat)
       THEN /\ wk' = [wk EXCEPT ![w].pc = "done"]
            /\ cls' = [cls EXCEPT ![wk[w].path] = "error"]
            /\ failed' = failed \cup {wk[w].path}
            /\ Mem' = Mem
       ELSE /\ wk' = [wk EXCEPT ![w].pc = "updateAbs"]
            /\ UNCHANGED <<cls, failed, emitted>>
            /\ Mem' = Put(Mem, wk[w].path, wk[w].stat)
  /\ UNCHANGED <<lockVars, disk, rosterFile, takeVars, cfg, abs, wpc, pos,
                 walkErr, work, qclosed, fpc, fval, fclosed, new, mod, del,
                 Mem0, disp, emitted>>

\* mutant of WorkerUpdateAbs: only a new or changed file leaves the
\* absentee list
WorkerUpdateAbsEmitted(w) ==
  /\ tpc = "walk"
  /\ wk[w].pc = "updateAbs"
  /\ IF wk[w].new \/ wk[w].mod
       THEN /\ wk' = [wk EXCEPT ![w].pc = "emit"]
            /\ abs' = abs \ {wk[w].path}
            /\ cls' = cls
       ELSE /\ wk' = [wk EXCEPT ![w].pc = "done"]
            /\ abs' = abs
            /\ cls' = [cls EXCEPT ![wk[w].path] = "unchanged"]
  /\ UNCHANGED <<lockVars, disk, rosterFile, takeVars, cfg, Mem, wpc, pos,
                 walkErr, work, qclosed, fpc, fval, fclosed, new, mod, del,
                 Mem0, disp, failed, emitted>>

\* mutant of WorkerUpdateAbs: the absentee list is left as Parse built it
WorkerUpdateAbsNone(w) ==
  /\ tpc = "walk"
  /\ wk[w].pc = "updateAbs"
  /\ abs' = abs
  /\ IF wk[w].new \/ wk[w].mod
       THEN /\ wk' = [wk EXCEPT ![w].pc = "emit"]
            /\ cls' = cls
       ELSE /\ wk' = [wk EXCEPT ![w].pc = "done"]
            /\ cls' = [cls EXCEPT ![wk[w].path] = "unchanged"]
  /\ UNCHANGED <<lockVars, disk, rosterFile, takeVars, cfg, Mem, wpc, pos,
                 walkErr, work, qclosed, fpc, fval, fclosed, new, mod, del,
                 Mem0, disp, failed, emitted>>

\* r.Update, second part: delete(ros.abs, filePath) (under abslk); a file
\* that is neither new nor changed is done
WorkerUpdateAbs(w) ==
  /\ tpc = "walk"
  /\ wk[w].pc = "updateAbs"
  /\ abs' = abs \ {wk[w].path}
  /\ IF wk[w].new \/ wk[w].mod
       THEN /\ wk' = [wk EXCEPT ![w].pc = "emit"]
            /\ cls' = cls
       ELSE /\ wk' = [wk EXCEPT ![w].pc = "done"]
            /\ cls' = [cls EXCEPT ![wk[w].path] = "unchanged"]
  /\ UNCHANGED <<lockVars, disk, rosterFile, takeVars, cfg, Mem, wpc, pos,
                 walkErr, work, qclosed, fpc, fval, fclosed, new, mod, del,
                 Mem0, disp, failed, emitted>>

\* n <- in.path or m <- in.path: the send completes when the funnel
\* goroutine, waiting in its range, receives the string; a send on a closed
\* channel panics
WorkerEmit(w) ==
  /\ tpc = "walk"
  /\ wk[w].pc = "emit"
  /\ LET p == wk[w].path
         f == IF wk[w].new THEN "new" ELSE "mod"
     IN  IF fclosed
           THEN /\ wk' = [wk EXCEPT ![w].pc = "panic"]
                /\ UNCHANGED <<fpc, fval, cls, emitted>>
           ELSE /\ fpc[f] = "recv"
                /\ wk' = [wk EXCEPT ![w].pc = "done"]
                /\ fpc' = [fpc EXCEPT ![f] = "append"]
                /\ fval' = [fval EXCEPT ![f] = p]
                /\ emitted' = [emitted EXCEPT ![f] = Append(@, p)]
                /\ cls' = [cls EXCEPT ![p] =
                             IF f = "new" THEN "new" ELSE "modified"]
  /\ UNCHANGED <<lockVars, disk, rosterFile, takeVars, rosVars, wpc, pos,
                 walkErr, work, qclosed, fclosed, new, mod, del, Mem0, disp,
                 failed>>

\* w.Done(), and back to the range over the queue
WorkerDone(w) ==
  /\ tpc = "walk"
  /\ wk[w].pc = "done"
  /\ work' = work - 1
  /\ wk' = Settle([wk EXCEPT ![w] = IdleWorker("recv")])
  /\ UNCHANGED <<lockVars, disk, rosterFile, takeVars, rosVars, wpc, pos,
                 walkErr, qclosed, fpc, fval, fclosed, new, mod, del,
                 histVars>>

\* the range over the closed queue ends: the worker goroutine returns.  As
\* in Send, the lowest-numbered waiting worker stands for any of them.
WorkerExit(w) ==
  /\ tpc = "walk"
  /\ wk[w].pc = "recv"
  /\ qclosed
  /\ \A v \in Workers : v < w => wk[v].pc # "recv"
  /\ wk' = Settle([wk EXCEPT ![w].pc = "exit"])
  /\ UNCHANGED <<lockVars, disk, rosterFile, takeVars, rosVars, wpc, pos,
                 walkErr, work, qclosed, fpc, fval, fclosed, new, mod, del,
                 histVars>>

\* ------------------------------------- the workers, one step per mutex call
\* Status: ros.memlk.Lock()
WorkerStatusLock(w) ==
  /\ tpc = "walk"
  /\ wk[w].pc = "changed"
  /\ CanLock(memlk)
  /\ memlk' = TRUE
  /\ wk' = [wk EXCEPT ![w].pc = "status"]
  /\ UNCHANGED <<abslk, disk, rosterFile, takeVars, rosVars, wpc, pos,
                 walkErr, work, qclosed, fpc, fval, fclosed, new, mod, del,
                 histVars>>

\* Status: the lookup in ros.Mem and the deferred Unlock; then the rest of
\* Changed, on the worker's own values
WorkerStatusRead(w) ==
  /\ tpc = "walk"
  /\ wk[w].pc = "status"
  /\ memlk' = FALSE
  /\ LET p == wk[w].path
         c == Changed(Mem, cfg.Ver, KindOf(p), p)
     IN  IF c.err # "nil"
           THEN /\ wk' = [wk EXCEPT ![w].pc = "done"]
                /\ cls' = [cls EXCEPT ![p] = "error"]
                /\ failed' = failed \cup {p}
           ELSE /\ wk' = [wk EXCEPT ![w].pc = "update", ![w].new = c.new,
                                    ![w].mod = c.changed, ![w].stat = c.stat]
                /\ UNCHANGED <<cls, failed>>
  /\ UNCHANGED <<abslk, disk, rosterFile, takeVars, rosVars, wpc, pos,
                 walkErr, work, qclosed, fpc, fval, fclosed, new, mod, del,
                 Mem0, disp, emitted>>

\* Update: the validity check, then ros.memlk.Lock()
WorkerUpdateLock(w) ==
  /\ tpc = "walk"
  /\ wk[w].pc = "update"
  /\ IF ~Valid(wk[w].stat)
       THEN /\ wk' = [wk EXCEPT ![w].pc = "done"]
            /\ cls' = [cls EXCEPT ![wk[w].path] = "error"]
            /\ failed' = failed \cup {wk[w].path}
            /\ memlk' = memlk
       ELSE /\ CanLock(memlk)
            /\ memlk' = TRUE
            /\ wk' = [wk EXCEPT ![w].pc = "write"]
            /\ UNCHANGED <<cls, failed>>
  /\ UNCHANGED <<abslk, disk, rosterFile, takeVars, rosVars, wpc, pos,
                 walkErr, work, qclosed, fpc, fval, fclosed, new, mod, del,
                 Mem0, disp, emitted>>

\* Update: ros.Mem[filePath] = stat; ros.memlk.Unlock()
WorkerUpdateWrite(w) ==
  /\ tpc = "walk"
  /\ wk[w].pc = "write"
  /\ Mem' = Put(Mem, wk[w].path, wk[w].stat)
  /\ memlk' = FALSE
  /\ wk' = [wk EXCEPT ![w].pc = "updateAbs"]
  /\ UNCHANGED <<abslk, disk, rosterFile, takeVars, cfg, abs, wpc, pos,
                 walkErr, work, qclosed, fpc, fval, fclosed, new, mod, del,
                 histVars>>

\* Update: ros.abslk.Lock()
WorkerAbsLock(w) ==
  /\ tpc = "walk"
  /\ wk[w].pc = "updateAbs"
  /\ CanLock(abslk)
  /\ abslk' = TRUE
  /\ wk' = [wk EXCEPT ![w].pc = "delete"]
  /\ UNCHANGED <<memlk, disk, rosterFile, takeVars, rosVars, wpc, pos,
                 walkErr, work, qclosed, fpc, fval, fclosed, new, mod, del,
                 histVars>>

\* Update: delete(ros.abs, filePath); ros.abslk.Unlock(); return nil
WorkerAbsDelete(w) ==
  /\ tpc = "walk"
  /\ wk[w].pc = "delete"
  /\ abs' = abs \ {wk[w].path}
  /\ abslk' = FALSE
  /\ IF wk[w].new \/ wk[w].mod
       THEN /\ wk' = [wk EXCEPT ![w].pc = "emit"]
            /\ cls' = cls
       ELSE /\ wk' = [wk EXCEPT ![w].pc = "done"]
            /\ cls' = [cls EXCEPT ![wk[w].path] = "unchanged"]
  /\ UNCHANGED <<memlk, disk, rosterFile, takeVars, cfg, Mem, wpc, pos,
                 walkErr, work, qclosed, fpc, fval, fclosed, new, mod, del,
                 Mem0, disp, failed, emitted>>

\* --------------------------------------------------------------------- Take
\* sort.Strings: ascending in the lexical order of the paths
RECURSIVE Insert(_, _)
Insert(sorted, p) ==
  IF sorted = <<>> THEN <<p>>
  ELSE IF Rank(p) <= Rank(Head(sorted)) THEN <<p>> \o sorted
  ELSE <<Head(sorted)>> \o Insert(Tail(sorted), p)

\* mutant of SortStrings: the slice is left as Walk returned it
SortNothing(s) == s

RECURSIVE SortStrings(_)
SortStrings(s) ==
  IF s = <<>> THEN <<>>
  ELSE Insert(SortStrings(Tail(s)), Head(s))

Calls(handler, s) == [i \in 1..Len(s) |-> <<handler, s[i]>>]

\* Take after Walk: sort and report new, mod and del, in this order
Report(n, m, d) ==
  Calls("NewFile", SortStrings(n)) \o Calls("ModFile", SortStrings(m))
    \o Calls("DelFile", SortStrings(d))

\* the next root, or return nil
NextRoot ==
  IF scan < MaxScans
    THEN /\ scan' = scan + 1
         /\ tpc' = "parse"
    ELSE /\ scan' = scan
         /\ tpc' = "done"

TakeReport ==
  /\ tpc = "walk"
  /\ wpc = "ret"
  /\ out' = out \o Report(new, mod, del)
  /\ IF update
       THEN /\ tpc' = "write"
            /\ scan' = scan
       ELSE NextRoot
  /\ UNCHANGED <<lockVars, disk, rosterFile, update, ret, rosVars, walkVars,
                 histVars>>

\* mutant of Document: the members are not written
DocumentNoMembers(c, m) ==
  [Cfg |-> [Thr |-> c.Thr, Ver |-> c.Ver, Ign |-> c.Ign], Mem |-> EmptyMem]

\* Roster.Write: the configuration and the members, as one document
Document(c, m) ==
  [Cfg |-> [Thr |-> c.Thr, Ver |-> c.Ver, Ign |-> c.Ign], Mem |-> m]

TakeWrite ==
  /\ tpc = "write"
  /\ rosterFile' = <<Document(cfg, Mem)>>
  /\ NextRoot
  /\ UNCHANGED <<lockVars, disk, update, ret, out, rosVars, walkVars,
                 histVars>>

\* ------------------------------------------------------------ initial states
\* The trees and persisted indexes considered.  For each path: what the tree
\* holds there, and the entry the persisted roster file has for it (<<>> for
\* none).
FreshStat(p) == MakeStatus("file", p)[1]
OtherSum(p) == [FreshStat(p) EXCEPT !.Check = "h2"]
OtherMode(p) == [FreshStat(p) EXCEPT !.Perms = "-rwxr-xr-x"]
NoSize(p) == [FreshStat(p) EXCEPT !.Fsize = StatusNoFsize]

Case(kind, entry) == [kind |-> kind, entry |-> entry]

PathCases(p) ==
  CASE p = ".git/x" ->
         {Case("file", <<FreshStat(p)>>), Case("none", <<FreshStat(p)>>),
          Case("none", <<>>)}
    [] p = "a.txt" ->
         {Case("file", <<>>), Case("file", <<OtherSum(p)>>),
          Case("file", <<NoStatus>>), Case("file", <<NoSize(p)>>),
          Case("locked", <<OtherSum(p)>>)}
    [] p = "b.txt" ->
         {Case("file", <<>>), Case("file", <<FreshStat(p)>>),
          Case("file", <<OtherMode(p)>>), Case("err", <<FreshStat(p)>>)}
    [] p = "c.txt" ->
         {Case("none", <<>>), Case("none", <<FreshStat(p)>>),
          Case("dir", <<FreshStat(p)>>), Case("file", <<FreshStat(p)>>)}
    [] OTHER -> {Case("none", <<>>)}

AllCases == UNION {PathCases(p) : p \in Paths}
Trees == {t \in [Paths -> AllCases] : \A p \in Paths : t[p] \in PathCases(p)}

DiskOf(t) == [p \in Paths |-> t[p].kind]
MemOf(t) == [p \in {q \in Paths : t[q].entry # <<>>} |-> t[p].entry[1]]

\* the configurations a persisted roster file may hold
Verifies ==
  {[Fsize |-> TRUE, Perms |-> FALSE, Mtime |-> FALSE, Check |-> FALSE],
   [Fsize |-> TRUE, Perms |-> FALSE, Mtime |-> FALSE, Check |-> TRUE],
   AllVerify}

Ignores == {IgnoreDefault, <<"(">>}

\* The configurations a roster file may hold.  What a policy makes of a file
\* does not depend on the number of workers: a pool of NumCPU workers is
\* taken with the policy of all attributes, and with the default policy when
\* there is no roster file; the narrower policies are taken with the other
\* thread settings.
Configs ==
  {c \in [Thr : ThreadSettings, Ver : Verifies, Ign : Ignores] :
     c.Thr = RuntimeThreadsNoLimit => c.Ver = AllVerify}

\* no roster file (only when nothing is indexed), or one with a configuration
RosterFiles(t) ==
  (IF MemOf(t) = EmptyMem THEN {<<>>} ELSE {})
    \cup {<<[Cfg |-> c, Mem |-> MemOf(t)]>> : c \in Configs}

Init ==
  /\ \E t \in Trees :
       /\ disk = DiskOf(t)
       /\ rosterFile \in RosterFiles(t)
  /\ update \in BOOLEAN
  /\ tpc = "parse"
  /\ scan = 1
  /\ ret = "nil"
  /\ out = <<>>
  /\ cfg = New(FALSE)
  /\ Mem = EmptyMem
  /\ abs = {}
  /\ memlk = FALSE
  /\ abslk = FALSE
  /\ wpc = "start"
  /\ pos = 1
  /\ walkErr = "nil"
  /\ work = 0
  /\ qclosed = FALSE
  /\ wk = [w \in Workers |-> IdleWorker("off")]
  /\ fpc = [f \in Funnels |-> "recv"]
  /\ fval = NoVal
  /\ fclosed = FALSE
  /\ new = <<>>
  /\ mod = <<>>
  /\ del = <<>>
  /\ Mem0 = EmptyMem
  /\ cls = NoCls
  /\ disp = NoDisp
  /\ failed = {}
  /\ emitted = NoneEmitted

Next ==
  \/ Parse
  \/ WalkStart
  \/ WalkFn
  \/ \E w \in Workers : Send(w)
  \/ CloseQueue
  \/ WorkWait
  \/ CloseFunnels
  \/ \E f \in Funnels : FunnelAppend(f)
  \/ \E f \in Funnels : FunnelExit(f)
  \/ WaitFunnels
  \/ Absentees
  \/ ExpelAll
  \/ \E w \in Workers : WorkerChanged(w)
  \/ \E w \in Workers : WorkerUpdateMem(w)
  \/ \E w \in Workers : WorkerUpdateAbs(w)
  \/ \E w \in Workers : WorkerEmit(w)
  \/ \E w \in Workers : WorkerDone(w)
  \/ \E w \in Workers : WorkerExit(w)
  \/ TakeReport
  \/ TakeWrite

Spec == Init /\ [][Next]_vars

\* The Go scheduler runs every goroutine that is able to take a step: the
\* goroutine of Take and Walk, each worker and each funnel.
Fairness ==
  /\ WF_vars(Parse \/ WalkStart \/ WalkFn \/ CloseQueue \/ WorkWait
               \/ CloseFunnels \/ WaitFunnels \/ Absentees \/ ExpelAll
               \/ TakeReport \/ TakeWrite)
  /\ \A w \in Workers :
       WF_vars(Send(w) \/ WorkerChanged(w) \/ WorkerUpdateMem(w)
                 \/ WorkerUpdateAbs(w) \/ WorkerEmit(w) \/ WorkerDone(w)
                 \/ WorkerExit(w))
  /\ \A f \in Funnels : WF_vars(FunnelAppend(f) \/ FunnelExit(f))

\* Take with the update flag set.  Without the flag every root is scanned
\* from the roster file as it was, so each Walk of such a call is also the
\* first Walk of a call with the flag set.
UpdateInit == Init /\ update

FairSpec == UpdateInit /\ [][Next]_vars /\ Fairness

\* The same program with every Lock and Unlock of the workers a step of its
\* own: Status, and the two halves of Update, are no longer atomic.
LockNext ==
  \/ Parse
  \/ WalkStart
  \/ WalkFn
  \/ \E w \in Workers : Send(w)
  \/ CloseQueue
  \/ WorkWait
  \/ CloseFunnels
  \/ \E f \in Funnels : FunnelAppend(f)
  \/ \E f \in Funnels : FunnelExit(f)
  \/ WaitFunnels
  \/ Absentees
  \/ ExpelAll
  \/ \E w \in Workers : WorkerStatusLock(w)
  \/ \E w \in Workers : WorkerStatusRead(w)
  \/ \E w \in Workers : WorkerUpdateLock(w)
  \/ \E w \in Workers : WorkerUpdateWrite(w)
  \/ \E w \in Workers : WorkerAbsLock(w)
  \/ \E w \in Workers : WorkerAbsDelete(w)
  \/ \E w \in Workers : WorkerEmit(w)
  \/ \E w \in Workers : WorkerDone(w)
  \/ \E w \in Workers : WorkerExit(w)
  \/ TakeReport
  \/ TakeWrite

LockSpec == UpdateInit /\ [][LockNext]_vars

\* ------------------------------------------------------------- properties
Range(s) == {s[i] : i \in 1..Len(s)}

\* Walk has returned new, mod and del to Take (and no later Walk has begun)
WalkReturned == wpc = "ret"

\* the path is not in the tree
Missing(p) == KindOf(p) = "none"

\* C1 as stated: every path with an entry in the Index at scan start that
\* does not exist on disk is in deleted, and has no entry after Walk.
C1_AsStated ==
  WalkReturned =>
    \A p \in DOMAIN Mem0 :
      Missing(p) => p \in Range(del) /\ p \notin DOMAIN Mem

\* C1 amended: every path with an entry in the Index at scan start that
\* matches no ignore pattern and does not exist on disk is in deleted, and
\* has no entry in the Index after Walk.
C1_DeletionSymmetry ==
  WalkReturned =>
    \A p \in DOMAIN Mem0 :
      (Missing(p) /\ ~Ignored(cfg.ire, p)) =>
        p \in Range(del) /\ p \notin DOMAIN Mem

C1_Witness ==
  /\ WalkReturned
  /\ \E p \in DOMAIN Mem0 :
       Missing(p) /\ ~Ignored(cfg.ire, p) /\ p \in Range(del)

\* C2: a candidate whose processing failed in a worker is in none of new,
\* mod and del, and an Index entry it had at scan start is still in the
\* Index after Walk.
C2_ErrorOmitted ==
  WalkReturned =>
    \A p \in Paths :
      cls[p] = "error" =>
        /\ p \notin Range(new) \cup Range(mod) \cup Range(del)
        /\ (p \in DOMAIN Mem0 => p \in DOMAIN Mem)

\* C3: when filepath.Walk ended with an error, Take returns an error.
C3_WalkErrorPropagated ==
  (tpc = "done" /\ walkErr # "nil") => ret # "nil"

\* C4: a second Walk on the unchanged tree, after Write and Parse, with no
\* per-candidate error, returns empty new, mod and del.
SecondWalkReturned == scan >= 2 /\ tpc # "parse" /\ wpc = "ret"

C4_Idempotence ==
  (SecondWalkReturned /\ update /\ failed = {}) =>
    new = <<>> /\ mod = <<>> /\ del = <<>>

C4_Witness ==
  /\ SecondWalkReturned
  /\ update
  /\ failed = {}
  /\ \E i, j, k \in 1..Len(out) :
       out[i][1] = "NewFile" /\ out[j][1] = "ModFile" /\ out[k][1] = "DelFile"
  /\ new = <<>> /\ mod = <<>> /\ del = <<>>

\* a regular file that matches no ignore pattern and is not the index file
Candidate(p) ==
  /\ KindOf(p) \in {"file", "locked"}
  /\ ~Ignored(cfg.ire, p)
  /\ p # RosterName

Count(s, p) == Cardinality({i \in 1..Len(s) : s[i] = p})

Classified(p) ==
  /\ disp[p] = 1
  /\ cls[p] \in {"new", "modified", "unchanged", "error"}
  /\ Count(new, p) = (IF cls[p] = "new" THEN 1 ELSE 0)
  /\ Count(mod, p) = (IF cls[p] = "modified" THEN 1 ELSE 0)

RECURSIVE C6_SeqWalk(_, _)
C6_SeqWalk(i, st) ==
  LET j == NextPos(i)
  IN  IF j > Len(Entries) \/ KindOf(Entries[j]) = "err" THEN st
      ELSE IF ~Keep(cfg.ire, Entries[j], KindOf(Entries[j]))
        THEN C6_SeqWalk(j + 1, st)
      ELSE LET p == Entries[j]
               c == Changed(st.Mem, cfg.Ver, KindOf(p), p)
           IN  IF c.err # "nil" \/ ~Valid(c.stat)
                 THEN C6_SeqWalk(j + 1, st)
                 ELSE C6_SeqWalk(j + 1,
                        [Mem |-> Put(st.Mem, p, c.stat),
                         abs |-> st.abs \ {p},
                         new |-> IF c.new THEN st.new \cup {p} ELSE st.new,
                         mod |-> IF ~c.new /\ c.changed
                                   THEN st.mod \cup {p} ELSE st.mod])

C6_SeqResult ==
  LET st == C6_SeqWalk(1, [Mem |-> Mem0, abs |-> ParseAbs(Mem0, cfg.ire),
                           new |-> {}, mod |-> {}])
  IN  [new |-> st.new, mod |-> st.mod, del |-> st.abs,
       Mem |-> [p \in DOMAIN st.Mem \ st.abs |-> st.Mem[p]]]

\* C6: for every number of workers and every interleaving, Walk returns the
\* new, mod and del sets and leaves the Index that the one-worker,
\* one-candidate-at-a-time Walk produces from the same tree and Index.
C6_WorkersAgree ==
  WalkReturned =>
    /\ Range(new) = C6_SeqResult.new
    /\ Range(mod) = C6_SeqResult.mod
    /\ Range(del) = C6_SeqResult.del
    /\ Mem = C6_SeqResult.Mem

C6_Witness ==
  /\ WalkReturned
  /\ Threads(cfg.Thr) > 1
  /\ Len(new) >= 2
  /\ Rank(new[1]) > Rank(new[2])
  /\ del # <<>>

\* the indexed size of p is its current size, the indexed checksum is not
\* the checksum of its current content, which can be read
SameSizeOtherContent(p) ==
  /\ KindOf(p) = "file"
  /\ p \in DOMAIN Mem0
  /\ Mem0[p].Fsize = FileSize(p)
  /\ Mem0[p].Check # FileSum(p)

SizeOnly(ver) == ver.Fsize /\ ~ver.Perms /\ ~ver.Mtime /\ ~ver.Check

\* C7: a file of unchanged size and changed content is classified unchanged
\* when only the size is compared, and modified when size and checksum are.
C7_PolicyNarrowing ==
  \A p \in Paths :
    (SameSizeOtherContent(p) /\ cls[p] # "none") =>
      /\ SizeOnly(cfg.Ver) => cls[p] = "unchanged"
      /\ (cfg.Ver.Fsize /\ cfg.Ver.Check) => cls[p] = "modified"

C7_Witness ==
  \E p \in Paths :
    SameSizeOtherContent(p) /\ SizeOnly(cfg.Ver) /\ cls[p] = "unchanged"

\* a.txt in the tree and not indexed; b.txt in the tree and indexed with its
\* size and checksum, the entry equal to its attributes under the policy;
\* c.txt indexed and not in the tree; nothing else in the tree or the Index
ExampleScenario ==
  /\ KindOf("a.txt") = "file" /\ "a.txt" \notin DOMAIN Mem0
  /\ KindOf("b.txt") = "file" /\ "b.txt" \in DOMAIN Mem0
  /\ Mem0["b.txt"].Fsize = FileSize("b.txt")
  /\ Mem0["b.txt"].Check = FileSum("b.txt")
  /\ Equals(Mem0["b.txt"], FreshStat("b.txt"), cfg.Ver)
  /\ Missing("c.txt") /\ "c.txt" \in DOMAIN Mem0
  /\ Missing(".git/x") /\ DOMAIN Mem0 = {"b.txt", "c.txt"}

\* C8: in the example scenario Walk returns new = {a.txt}, mod = {} and
\* del = {c.txt}, and the Index then has entries for a.txt and b.txt only.
C8_Example ==
  (WalkReturned /\ ExampleScenario) =>
    /\ new = <<"a.txt">>
    /\ mod = <<>>
    /\ del = <<"c.txt">>
    /\ DOMAIN Mem = {"a.txt", "b.txt"}

C8_Witness == WalkReturned /\ ExampleScenario /\ scan = 1

\* C9: once the absentee pass has begun no worker is processing a
\* candidate: every dispatched candidate has been classified and marked
\* done, and no path a worker confirmed present is declared absent.
AbsenteePass == wpc \in {"absentees", "expel", "ret"}

C9_AbsenteesAfterWorkers ==
  AbsenteePass =>
    /\ work = 0
    /\ \A w \in Workers : wk[w].pc \in {"off", "recv", "exit"}
    /\ \A p \in Paths : disp[p] > 0 => cls[p] # "none"
    /\ \A p \in Paths :
         cls[p] \in {"new", "modified", "unchanged"} => p \notin Range(del)

C9_Witness ==
  /\ wpc = "expel"
  /\ Threads(cfg.Thr) > 1
  /\ del # <<>>
  /\ \E p, q \in Paths : cls[p] = "new" /\ cls[q] = "unchanged"

\* C10: a path that matches an ignore pattern is never dispatched, and an
\* Index entry it had at scan start is not in del and is still in the
\* Index, unchanged, after Walk, whether the path is in the tree or not.
C10_IgnoredPreserved ==
  \A p \in Paths :
    Ignored(cfg.ire, p) =>
      /\ disp[p] = 0
      /\ (WalkReturned /\ p \in DOMAIN Mem0) =>
           /\ p \notin Range(del)
           /\ p \in DOMAIN Mem
           /\ Mem[p] = Mem0[p]

C10_Witness ==
  /\ WalkReturned
  /\ del # <<>>
  /\ \E p \in DOMAIN Mem0 : Ignored(cfg.ire, p) /\ Missing(p)

\* Walk is running or has returned: past the construction of its goroutines
WalkEntered == wpc # "start"

\* candidates added to the WaitGroup work and not yet marked done
InFlight ==
  Cardinality({w \in Workers :
                 wk[w].pc \in {"changed", "update", "updateAbs", "emit",
                               "done", "panic"}})
    + (IF wpc = "send" THEN 1 ELSE 0)

C11_Isolated ==
  WalkEntered =>
    /\ work = InFlight
    /\ \A p \in Paths :
         cls[p] = "error" =>
           /\ p \notin Range(new) \cup Range(mod)
           /\ p \in DOMAIN Mem => (p \in DOMAIN Mem0 /\ Mem[p] = Mem0[p])
           /\ (p \in DOMAIN Mem0 /\ ~Ignored(cfg.ire, p)) => p \in abs
    /\ WalkReturned => \A q \in Paths : disp[q] > 0 => cls[q] # "none"

\* C11: when Changed fails for a candidate, the worker marks it done and
\* goes on: the candidate is in neither new nor mod, its Index entry is not
\* written, the worker leaves it in the pending-absence set, every other
\* dispatched candidate is classified, and Walk returns.
C11_FailureIsolation ==
  /\ []C11_Isolated
  /\ (\E p \in Paths : cls[p] = "error") ~> WalkReturned

C11_Witness ==
  /\ WalkReturned
  /\ Threads(cfg.Thr) = 1
  /\ \E p, q \in Paths :
       /\ cls[p] = "error" /\ p \in DOMAIN Mem0
       /\ Rank(p) < Rank(q)
       /\ cls[q] \in {"new", "modified", "unchanged"}

\* Parse has returned a Roster and Walk has not been entered yet
ScanStart == tpc = "walk" /\ wpc = "start"

\* C12: with no persisted index file, Parse returns the default
\* configuration: all four fields of the comparison policy enabled, threads
\* 0, the built-in ignore patterns, and an empty Index.
C12_DefaultConfig ==
  (ScanStart /\ rosterFile = <<>>) =>
    /\ cfg.Ver.Fsize /\ cfg.Ver.Perms /\ cfg.Ver.Mtime /\ cfg.Ver.Check
    /\ cfg.Thr = 0
    /\ cfg.Ign = <<"\\.git", "\\.svn">>
    /\ Mem = EmptyMem

\* the persisted configuration holds an ignore pattern that is no regular
\* expression
MalformedIgnore ==
  /\ rosterFile # <<>>
  /\ \E i \in 1..Len(rosterFile[1].Cfg.Ign) : rosterFile[1].Cfg.Ign[i] = "("

\* C13: with a malformed ignore pattern Parse returns an error and no
\* Roster, and Take returns that error before Walk is called: no traversal
\* step, no Index mutation and no handler call happens.
C13_SetupError ==
  (MalformedIgnore /\ tpc # "parse") =>
    /\ tpc = "done"
    /\ ret = "file.Parse()"
    /\ cfg = New(FALSE) /\ Mem = EmptyMem /\ abs = {}
    /\ wpc = "start" /\ pos = 1 /\ work = 0
    /\ disp = NoDisp /\ cls = NoCls
    /\ new = <<>> /\ mod = <<>> /\ del = <<>>
    /\ out = <<>>

C13_Witness ==
  /\ MalformedIgnore
  /\ ret # "nil"
  /\ KindOf("a.txt") = "file"
  /\ DOMAIN rosterFile[1].Mem # {}

HandlerRank(h) ==
  CASE h = "NewFile" -> 1 [] h = "ModFile" -> 2 [] h = "DelFile" -> 3

\* the calls are grouped by handler, new then modified then deleted, and
\* within a handler the paths ascend
ReportOrdered(s) ==
  \A i, j \in 1..Len(s) :
    i < j =>
      \/ HandlerRank(s[i][1]) < HandlerRank(s[j][1])
      \/ s[i][1] = s[j][1] /\ Rank(s[i][2]) < Rank(s[j][2])

ReportOf(s) ==
  [NewFile |-> {s[i][2] : i \in {k \in 1..Len(s) : s[k][1] = "NewFile"}},
   ModFile |-> {s[i][2] : i \in {k \in 1..Len(s) : s[k][1] = "ModFile"}},
   DelFile |-> {s[i][2] : i \in {k \in 1..Len(s) : s[k][1] = "DelFile"}}]

C14_Step ==
  /\ out' # out =>
       /\ wpc = "ret"
       /\ Len(out') = Len(out) + Len(new) + Len(mod) + Len(del)
       /\ SubSeq(out', 1, Len(out)) = out
       /\ LET s == SubSeq(out', Len(out) + 1, Len(out'))
          IN  /\ ReportOrdered(s)
              /\ ReportOf(s) = [NewFile |-> Range(new), ModFile |-> Range(mod),
                                DelFile |-> Range(del)]
  /\ (tpc' = "write" \/ rosterFile' # rosterFile) => (update /\ wpc = "ret")
  /\ rosterFile' # rosterFile => tpc = "write"

\* C14: for each root Take calls the handlers in a fixed order: the new
\* paths ascending, then the modified paths ascending, then the deleted
\* paths ascending; Write happens only when update is set, and only after
\* Walk, absentee resolution included, has returned.
C14_ReportOrder == [][C14_Step]_vars

C14_Witness ==
  /\ tpc = "write"
  /\ Len(new) >= 2
  /\ Rank(new[1]) > Rank(new[2])
  /\ del # <<>>
  /\ \E i, j \in 1..Len(out) : out[i][1] = "NewFile" /\ out[j][1] = "DelFile"

\* the attributes of the regular file at p, as os.FileInfo and the content
\* give them
Fresh(p) ==
  [Fsize |-> FileSize(p), Perms |-> FileMode(p), Mtime |-> FileTime(p),
   Check |-> FileSum(p)]

Fields == {"Fsize", "Perms", "Mtime", "Check"}

\* the index m has an entry for p that is not the unmeasured snapshot
HasValidEntry(m, p) == p \in DOMAIN m /\ m[p] # NoStatus

\* some field the policy enables differs between the two snapshots
DiffersUnder(ver, s, t) == \E f \in Fields : ver[f] /\ s[f] # t[f]

C16_UpdateBeforeEmit ==
  WalkEntered =>
    /\ \A w \in Workers :
         wk[w].pc = "emit" =>
           /\ wk[w].path \in DOMAIN Mem
           /\ Mem[wk[w].path] = Fresh(wk[w].path)
           /\ wk[w].path \notin abs
    /\ \A p \in Range(new) :
         /\ ~HasValidEntry(Mem0, p)
         /\ p \in DOMAIN Mem /\ Mem[p] = Fresh(p) /\ p \notin abs
    /\ \A p \in Range(mod) :
         /\ HasValidEntry(Mem0, p)
         /\ DiffersUnder(cfg.Ver, Fresh(p), Mem0[p])
         /\ p \in DOMAIN Mem /\ Mem[p] = Fresh(p) /\ p \notin abs
    /\ \A p \in Paths :
         /\ cls[p] = "new" <=> p \in Range(emitted["new"])
         /\ cls[p] = "modified" <=> p \in Range(emitted["mod"])

C16_Witness ==
  /\ WalkReturned
  /\ new # <<>>
  /\ \E p \in Range(mod) : Mem0[p] # Mem[p]
  /\ del # <<>>

ValidUnder(s, ver) == \E f \in Fields : ver[f] /\ s[f] # NoStatus[f]

\* C18: validity is relative to the active policy: Changed takes a prior
\* entry as valid, and Update accepts a snapshot, iff some field the policy
\* enables differs from its unmeasured sentinel.
C18_PolicyValidity ==
  \A w \in Workers :
    /\ wk[w].pc = "update" =>
         wk[w].new = ~(/\ wk[w].path \in DOMAIN Mem
                       /\ ValidUnder(Mem[wk[w].path], cfg.Ver))
    /\ wk[w].pc = "updateAbs" => ValidUnder(wk[w].stat, cfg.Ver)

\* C19: with the checksum disabled in the policy no content is read: the
\* fresh snapshot carries the unmeasured checksum and an unreadable content
\* is no per-candidate error.
C19_ChecksumSkipped ==
  (WalkEntered /\ ~cfg.Ver.Check) =>
    /\ \A w \in Workers :
         wk[w].pc \in {"update", "updateAbs", "emit"} =>
           wk[w].stat.Check = StatusNoCheck
    /\ \A p \in Paths : cls[p] # "error"

\* C20: at scan start the pending-absence set is the set of the paths that
\* have an Index entry and match no ignore pattern, for an Index loaded
\* from a persisted file and for the default empty Index.
C20_AbsSeeded ==
  ScanStart =>
    /\ abs = {p \in DOMAIN Mem :
                \A i \in 1..Len(cfg.ire) : ~MatchString(cfg.ire[i], p)}
    /\ rosterFile = <<>> => (Mem = EmptyMem /\ abs = {})
    /\ rosterFile # <<>> => Mem = rosterFile[1].Mem

C20_Witness ==
  /\ ScanStart
  /\ scan = 2
  /\ abs # {}
  /\ abs # DOMAIN Mem

\* C21: only regular files are dispatched: a directory, any other entry
\* that is no regular file, and an entry named like the index file are
\* never dispatched or classified, are in neither new nor mod, and get no
\* Index entry written.
C21_RegularFilesOnly ==
  WalkEntered =>
    \A p \in Paths :
      (KindOf(p) \notin {"file", "locked"} \/ Base(p) = Base(RosterName)) =>
        /\ disp[p] = 0
        /\ cls[p] = "none"
        /\ \A w \in Workers : wk[w].path # p
        /\ p \notin Range(new) \cup Range(mod)
        /\ p \in DOMAIN Mem => (p \in DOMAIN Mem0 /\ Mem[p] = Mem0[p])

C21_Witness ==
  /\ WalkReturned
  /\ KindOf(RosterName) = "file"
  /\ KindOf("c.txt") = "dir" /\ "c.txt" \in Range(del)
  /\ new # <<>>

\* a worker holds a candidate it has received and not yet marked done
Busy(w) ==
  wk[w].pc \in {"changed", "update", "updateAbs", "emit", "done", "panic"}

\* C22: funnelNew and funnelMod are closed only after the queue was closed
\* and the work counter has reached zero, every dispatched candidate being
\* fully processed: no worker ever sends on a closed channel.
C22_CloseAfterWork ==
  /\ \A w \in Workers : wk[w].pc # "panic"
  /\ (WalkEntered /\ (fclosed \/ wpc = "closeFunnels")) =>
       /\ qclosed
       /\ work = 0
       /\ \A w \in Workers : ~Busy(w)
       /\ \A p \in Paths : disp[p] > 0 => cls[p] # "none"

C22_Witness ==
  /\ wpc = "join"
  /\ fclosed
  /\ Threads(cfg.Thr) > 1
  /\ new # <<>> /\ mod # <<>>

\* the number of worker goroutines Walk starts
PoolSize == IF cfg.Thr = 0 THEN NumCPU ELSE Max(cfg.Thr, 0)

\* C24: a send on the queue completes only when a worker receives the
\* candidate; with N workers at most N candidates are received and not
\* finished, and the work counter is never negative and at most N + 1.
C24_Backpressure ==
  WalkEntered =>
    /\ Cardinality({w \in Workers : Busy(w)}) <= PoolSize
    /\ work >= 0
    /\ work <= PoolSize + 1
    /\ work = Cardinality({w \in Workers : Busy(w)})
                + (IF wpc = "send" THEN 1 ELSE 0)
    /\ wpc = "send" => (disp[Entries[pos]] = 0 /\ \A w \in Workers :
                                                   wk[w].path # Entries[pos])

C24_Step ==
  (wpc = "send" /\ wpc' # "send") =>
    \E w \in Workers :
      /\ wk[w].pc = "recv"
      /\ wk'[w].pc = "changed"
      /\ wk'[w].path = Entries[pos]

C24_QueueUnbuffered == []C24_Backpressure /\ [][C24_Step]_vars

C24_Witness ==
  /\ wpc = "send"
  /\ cfg.Thr = 1
  /\ work = 2
  /\ scan = 1

\* C26: the three result sets of one Walk are pairwise disjoint, and del is
\* a subset of the paths that had an Index entry at scan start.
C26_ResultsDisjoint ==
  WalkEntered =>
    /\ Range(new) \cap Range(mod) = {}
    /\ Range(new) \cap Range(del) = {}
    /\ Range(mod) \cap Range(del) = {}
    /\ Range(del) \subseteq DOMAIN Mem0

C26_Witness ==
  /\ WalkReturned
  /\ Threads(cfg.Thr) > 1
  /\ new # <<>> /\ mod # <<>> /\ del # <<>>
  /\ ~update

\* C27: in every state of a Roster every path in the pending-absence set
\* has an entry in the Index; after absentee resolution the set holds no
\* expelled path.
C27_AbsInIndex ==
  /\ abs \subseteq DOMAIN Mem
  /\ WalkReturned => abs \cap Range(del) = {}

\* C28: for every configured thread count, negative ones included, at
\* least one worker runs, the producer is never blocked on the queue with
\* no worker to receive, and Walk is never stuck before it returns.
C28_WalkNotStuck ==
  (tpc = "walk" /\ WalkEntered) =>
    /\ \E w \in Workers : wk[w].pc # "off"
    /\ ~WalkReturned => ENABLED Next

\* C29: when filepath.Walk is aborted by a filesystem error no absentee
\* resolution is performed: nothing is reported deleted, and an indexed
\* file that is in the tree and was not reached keeps its Index entry.
C29_AbortedScan ==
  (WalkReturned /\ walkErr # "nil") =>
    /\ del = <<>>
    /\ \A p \in DOMAIN Mem0 :
         KindOf(p) = "file" => (p \notin Range(del) /\ p \in DOMAIN Mem)

\* the worker is between Lock and Unlock of memlk, or of abslk
InMem(w) == wk[w].pc \in {"status", "write"}
InAbs(w) == wk[w].pc = "delete"

\* some worker goroutine holds a candidate; a worker that waits on the
\* queue, or finds it closed, touches neither Mem nor abs
WorkersRunning == \E w \in Workers : IsHolding(wk[w])

\* at most one worker is inside Status or the write of Update, at most one
\* inside the delete on abs, and each mutex is locked exactly then; the
\* main goroutine reads abs and expels with no worker running
C25_Exclusive ==
  /\ Cardinality({w \in Workers : InMem(w)}) <= 1
  /\ Cardinality({w \in Workers : InAbs(w)}) <= 1
  /\ memlk <=> \E w \in Workers : InMem(w)
  /\ abslk <=> \E w \in Workers : InAbs(w)
  /\ (tpc = "walk" /\ wpc \in {"absentees", "expel"}) =>
       (~WorkersRunning /\ ~memlk /\ ~abslk)

\* while workers run, Mem and abs change only in the step that unlocks the
\* mutex of the one worker inside
C25_Step ==
  WorkersRunning =>
    /\ Mem' # Mem => (memlk /\ ~memlk' /\ \E w \in Workers :
                         wk[w].pc = "write" /\ wk'[w].pc = "updateAbs")
    /\ abs' # abs => (abslk /\ ~abslk' /\ \E w \in Workers :
                         wk[w].pc = "delete" /\ wk'[w].pc \in {"emit", "done"})

\* C25: every access of a worker to Mem and to abs is mutually exclusive
\* per region: at most one worker at a time is inside Status or a write of
\* Mem, at most one mutates abs, and nothing reads or writes either outside
\* its lock while workers are running.
C25_LockedAccess == []C25_Exclusive /\ [][C25_Step]_vars

C25_Witness ==
  /\ \E w \in Workers : wk[w].pc = "write"
  /\ \E w \in Workers : wk[w].pc = "changed"
  /\ memlk
  /\ abs # {}

\* the sequence s has no element twice
NoDuplicates(s) == \A i, j \in 1..Len(s) : i # j => s[i] # s[j]

\* t is s, or s without its last element
IsPrefix(t, s) == Len(t) <= Len(s) /\ t = SubSeq(s, 1, Len(t))

\* what a funnel has appended is what was sent on its channel, but for a
\* string it has received and not yet appended
C23_Drained ==
  WalkEntered =>
    /\ IsPrefix(new, emitted["new"]) /\ Len(emitted["new"]) <= Len(new) + 1
    /\ IsPrefix(mod, emitted["mod"]) /\ Len(emitted["mod"]) <= Len(mod) + 1
    /\ fpc["new"] # "append" => new = emitted["new"]
    /\ fpc["mod"] # "append" => mod = emitted["mod"]
    /\ NoDuplicates(emitted["new"] \o emitted["mod"])
    /\ AbsenteePass =>
         /\ \A f \in Funnels : fpc[f] = "done"
         /\ new = emitted["new"] /\ mod = emitted["mod"]
         /\ Range(new) = {p \in Paths : cls[p] = "new"}
         /\ Range(mod) = {p \in Paths : cls[p] = "modified"}

\* once Walk has returned, new and mod are as returned
C23_Step == wpc = "ret" => (new' = new /\ mod' = mod)

\* C23: once their channels are closed both funnels terminate, and Walk
\* returns only after both have: the returned new and mod hold exactly the
\* paths the workers sent, each once, and nothing is appended after Walk
\* has returned.
C23_Aggregators ==
  /\ []C23_Drained
  /\ [][C23_Step]_vars
  /\ (fclosed ~> FunnelsDone)

C23_Witness ==
  /\ WalkReturned
  /\ update
  /\ Threads(cfg.Thr) > 1
  /\ Len(new) >= 2 /\ Rank(new[1]) > Rank(new[2])
  /\ emitted["new"] = new

====
